---- MODULE Spec2Model ----
(***************************************************************************)
(* jncep tracking store and synchronisation engine (src/jncep/track.py).   *)
(*                                                                         *)
(* The model follows one run of the program: the persisted file is read    *)
(* (read_tracked_series, which migrates legacy formats), the store is      *)
(* reconciled with the list of remote follows (sync_series_forward,        *)
(* sync_series_backward, each a nursery of concurrent tasks) and the       *)
(* store is written back (write_tracked_series).                           *)
(*                                                                         *)
(* A Python dict is a sequence of [key, value] entries with distinct keys  *)
(* (insertion order is kept, as in Python >= 3.7).  A URL or slug used as  *)
(* a key is the record [form, slug]: form "slug" is a bare slug, "legacy"  *)
(* the old website's series URL, "new" the current website's series URL.   *)
(***************************************************************************)
EXTENDS Integers, Sequences, FiniteSets, TLC

VARIABLES
    file,          \* ~/.jncep/tracked.json : [state, data]
    tmp,           \* the temporary file atomic_write writes to
    pc,            \* where the program is
    tracked,       \* tracked_series, the in-memory store
    follows,       \* the follows handed to the syncs (a list of resources)
    remote,        \* series ids followed on the remote side
    is_delete,     \* argument of the running (or last) sync
    tasks,         \* the tasks of the nursery of the running (or last) sync
    new_synced,    \* list built by the running sync, returned by it
    del_synced,    \* list built by the running sync, returned by it
    series_url,    \* loop variable of sync_series_backward (read by do_follow)
    calls,         \* gateway calls issued by the running (or last) sync
    run,           \* the running (or last) sync: [kind, is_delete, outcome]
    prev,          \* the sync before it
    tracked0,      \* tracked_series when the running (or last) sync started
    remote0,       \* remote when the running (or last) sync started
    nsyncs,        \* number of syncs started
    file0          \* the file as it was when the program (or the save) started

vars == <<file, tmp, pc, tracked, follows, remote, is_delete, tasks, new_synced,
          del_synced, series_url, calls, run, prev, tracked0, remote0, nsyncs,
          file0>>

-----------------------------------------------------------------------------
(* Bounds of the model *)

\* entries of the persisted file at start
MaxStored == 2
\* length of the follow list
MaxFollows == 2
\* volumes of a remote series
MaxVolumes == 2
\* parts of a volume
MaxParts == 2
\* syncs (forward or backward) of one run of the program
MaxSyncs == 2

-----------------------------------------------------------------------------
(* Series, slugs, URLs *)

\* the series of the remote catalogue, by slug, in lexicographic order
SlugList == <<"ab-cd", "ef">>

Slugs == {SlugList[i] : i \in DOMAIN SlugList}

SlugRank(slug) == CHOOSE i \in DOMAIN SlugList : SlugList[i] = slug

\* series_slug.replace("-", " ").title()
TitleFromSlug(slug) ==
    CASE slug = "ab-cd" -> "Ab Cd"
      [] slug = "ef" -> "Ef"

\* the title the remote side gives for the series
RemoteTitle(slug) ==
    CASE slug = "ab-cd" -> "AB: The CD"
      [] slug = "ef" -> "Ef!"

\* the numeric id the remote side gives for the series
RemoteId(slug) == 100 + SlugRank(slug)

\* jncweb.url_from_series_slug : the URL of the series on the current website
url_from_series_slug(slug) == [form |-> "new", slug |-> slug]

\* the URL of the series on the old website
legacy_url(slug) == [form |-> "legacy", slug |-> slug]

\* a bare slug, as the oldest file format has for keys
bare_slug(slug) == [form |-> "slug", slug |-> slug]

\* jncweb.to_new_website_series_url : legacy or current URL -> current URL
to_new_website_series_url(url) == url_from_series_slug(url.slug)

\* jncweb.resource_from_url : the resource a series URL designates
resource_from_url(url) == [url |-> url, slug |-> url.slug]

\* a follow as the gateway lists it: the resource of the series with the raw
\* data of the follow
FollowOf(slug) ==
    [url |-> url_from_series_slug(slug), slug |-> slug,
     follow_raw_data |-> [id |-> RemoteId(slug), title |-> RemoteTitle(slug)]]

\* core.resolve_series : the series the resource designates
resolve_series(jnc_resource) ==
    [series_id |-> RemoteId(jnc_resource.slug),
     raw_data |-> [slug |-> jnc_resource.slug,
                   title |-> RemoteTitle(jnc_resource.slug)]]

IsCurrentUrl(url) == url.form = "new"

-----------------------------------------------------------------------------
(* Python dicts *)

Entry(k, v) == [key |-> k, value |-> v]

Keys(d) == {d[i].key : i \in DOMAIN d}

\* d[k] = v : an existing key keeps its place, a new key goes last
Put(d, k, v) ==
    IF k \in Keys(d)
    THEN [i \in DOMAIN d |-> IF d[i].key = k THEN Entry(k, v) ELSE d[i]]
    ELSE Append(d, Entry(k, v))

\* del d[k]
Del(d, k) == SelectSeq(d, LAMBDA e : e.key # k)

\* d[k]
Get(d, k) == d[CHOOSE i \in DOMAIN d : d[i].key = k].value

\* isinstance(value, dict)
IsDict(value) == "bare" \notin DOMAIN value

-----------------------------------------------------------------------------
(* read_tracked_series *)

\* a first loop without the isinstance test: every value is taken for a part
RECURSIVE ConvertLegacyEntries_NoDictCheck(_, _, _)
ConvertLegacyEntries_NoDictCheck(data, from, converted) ==
    IF from > Len(data) THEN converted
    ELSE LET series_slug == data[from].key.slug
             value == data[from].value
         IN ConvertLegacyEntries_NoDictCheck(data, from + 1,
                Put(converted, url_from_series_slug(series_slug),
                    [name |-> TitleFromSlug(series_slug),
                     part |-> IF IsDict(value) THEN value.part ELSE value.bare]))

\* first loop of _convert_to_latest_format, over data[from..]
RECURSIVE ConvertLegacyEntries(_, _, _)
ConvertLegacyEntries(data, from, converted) ==
    IF from > Len(data) THEN converted
    ELSE LET series_url_or_slug == data[from].key
             value == data[from].value
         IN IF ~IsDict(value)
            THEN LET series_slug == series_url_or_slug.slug
                     slug_url == url_from_series_slug(series_slug)
                     name == TitleFromSlug(series_slug)
                 IN ConvertLegacyEntries(data, from + 1,
                        Put(converted, slug_url,
                            [name |-> name, part |-> value.bare]))
            ELSE ConvertLegacyEntries(data, from + 1,
                        Put(converted, series_url_or_slug, value))

\* second loop of _convert_to_latest_format, over converted[from..]
RECURSIVE ConvertLegacyUrls(_, _, _)
ConvertLegacyUrls(converted, from, converted_b) ==
    IF from > Len(converted) THEN converted_b
    ELSE LET legacy_series_url == converted[from].key
             new_series_url == to_new_website_series_url(legacy_series_url)
         IN ConvertLegacyUrls(converted, from + 1,
                Put(converted_b, new_series_url, converted[from].value))

\* a migration without its second loop
convert_to_latest_format_FirstLoopOnly(data) ==
    ConvertLegacyEntries(data, 1, <<>>)

convert_to_latest_format(data) ==
    ConvertLegacyUrls(ConvertLegacyEntries(data, 1, <<>>), 1, <<>>)

-----------------------------------------------------------------------------
(* The persisted file *)

NoFile == [state |-> "absent", data |-> <<>>]

JsonFile(data) == [state |-> "json", data |-> data]

\* a file whose text stops after the entries of data
PartialFile(data) == [state |-> "partial", data |-> data]

\* a file whose text is not JSON
MalformedFile == [state |-> "malformed", data |-> <<>>]

\* a record as track_series writes it
StoredRecord(slug) ==
    [part_date |-> "2020-02-02T02:02:02.000Z", part |-> 2,
     name |-> RemoteTitle(slug)]

\* a record as _convert_to_latest_format makes it from a bare part (line 48),
\* saved by an earlier run
MigratedRecord(slug) == [name |-> TitleFromSlug(slug), part |-> 1]

\* the entries a persisted file may hold for a series: the oldest format
\* (slug and bare part), a record under the legacy or the current URL, and
\* a record migrated from the oldest format under the current URL
StoredEntries ==
    UNION {{Entry(bare_slug(s), [bare |-> 1]),
            Entry(legacy_url(s), StoredRecord(s)),
            Entry(url_from_series_slug(s), StoredRecord(s)),
            Entry(url_from_series_slug(s), MigratedRecord(s))} : s \in Slugs}

\* a JSON object: its keys are distinct
StoredData ==
    {d \in UNION {[1..n -> StoredEntries] : n \in 0..MaxStored} :
        \A i, j \in DOMAIN d : i # j => d[i].key # d[j].key}

\* order of the keys as strings: "ab-cd" < "ef" < "https://j-novel.club/s/..."
\* < "https://j-novel.club/series/..."
KeyRank(k) ==
    (CASE k.form = "slug" -> 0 [] k.form = "legacy" -> 1 [] k.form = "new" -> 2)
        * (Len(SlugList) + 1) + SlugRank(k.slug)

\* the entries of d in the order of their keys
RECURSIVE SortedByKey(_)
SortedByKey(d) ==
    IF d = <<>> THEN <<>>
    ELSE LET least == CHOOSE i \in DOMAIN d :
                        \A j \in DOMAIN d : KeyRank(d[i].key) <= KeyRank(d[j].key)
         IN <<d[least]>> \o SortedByKey(Del(d, d[least].key))

\* json.dumps(tracked, sort_keys=True, indent=2), entry by entry
Dumps(d) == SortedByKey(d)

-----------------------------------------------------------------------------
(* The follows *)

FollowLists ==
    UNION {[1..n -> {FollowOf(s) : s \in Slugs}] : n \in 0..MaxFollows}

FollowUrls(fs) == {fs[i].url : i \in DOMAIN fs}

NoRun == [kind |-> "none", is_delete |-> FALSE, outcome |-> "none"]

NoCalls == [op \in {"resolve", "volumes", "parts", "follow", "unfollow"} |->
               [s \in Slugs |-> 0]]

-----------------------------------------------------------------------------
(* The program *)

Init ==
    /\ file \in {NoFile, MalformedFile} \cup {JsonFile(d) : d \in StoredData}
    /\ file0 = file
    /\ tmp = NoFile
    /\ pc = "init"
    /\ tracked = <<>>
    /\ follows \in FollowLists
    /\ remote = {follows[i].follow_raw_data.id : i \in DOMAIN follows}
    /\ is_delete = FALSE
    /\ tasks = <<>>
    /\ new_synced = <<>>
    /\ del_synced = <<>>
    /\ series_url = url_from_series_slug(SlugList[1])
    /\ calls = NoCalls
    /\ run = NoRun
    /\ prev = NoRun
    /\ tracked0 = <<>>
    /\ remote0 = remote
    /\ nsyncs = 0

\* a read that takes any failure for a first run
LoadRaises_Never(f) == FALSE

\* read_tracked_series, lines 24-31: json.load raises on a text that is not
\* JSON, and only FileNotFoundError is caught
LoadRaises(f) == f.state = "malformed"

\* read_tracked_series, lines 28-32: the store returned
LoadedStore(f) ==
    IF f.state = "absent" THEN <<>> ELSE convert_to_latest_format(f.data)

\* read_tracked_series
read_tracked_series ==
    /\ pc = "init"
    /\ IF LoadRaises(file)
       THEN pc' = "load_error" /\ UNCHANGED tracked
       ELSE pc' = "ready" /\ tracked' = LoadedStore(file)
    /\ UNCHANGED <<file, tmp, follows, remote, is_delete, tasks, new_synced,
                   del_synced, series_url, calls, run, prev, tracked0, remote0,
                   nsyncs, file0>>

\* write_tracked_series: atomic_write opens the temporary file.  The caller
\* saves when its syncs are over: what they returned and their locals are gone
SaveOpen ==
    /\ pc = "ready"
    /\ pc' = "writing"
    /\ tmp' = PartialFile(<<>>)
    /\ file0' = file
    /\ tasks' = <<>>
    /\ new_synced' = <<>>
    /\ del_synced' = <<>>
    /\ calls' = NoCalls
    /\ run' = NoRun
    /\ prev' = NoRun
    /\ tracked0' = <<>>
    /\ remote0' = remote
    /\ is_delete' = FALSE
    /\ UNCHANGED <<file, tracked, follows, remote, series_url, nsyncs>>

\* a save that writes the file in place
SaveWrite_InPlace ==
    /\ pc = "writing"
    /\ Len(tmp.data) < Len(tracked)
    /\ tmp' = PartialFile(Append(tmp.data, Dumps(tracked)[Len(tmp.data) + 1]))
    /\ file' = tmp'
    /\ UNCHANGED <<pc, tracked, follows, remote, is_delete, tasks,
                   new_synced, del_synced, series_url, calls, run, prev,
                   tracked0, remote0, nsyncs, file0>>

\* write_tracked_series: f.write reaches the disk piece by piece
SaveWrite ==
    /\ pc = "writing"
    /\ Len(tmp.data) < Len(tracked)
    /\ tmp' = PartialFile(Append(tmp.data, Dumps(tracked)[Len(tmp.data) + 1]))
    /\ UNCHANGED <<file, pc, tracked, follows, remote, is_delete, tasks,
                   new_synced, del_synced, series_url, calls, run, prev,
                   tracked0, remote0, nsyncs, file0>>

\* write_tracked_series: the text is complete, the temporary file is closed
SaveClose ==
    /\ pc = "writing"
    /\ Len(tmp.data) = Len(tracked)
    /\ tmp' = JsonFile(tmp.data)
    /\ pc' = "written"
    /\ UNCHANGED <<file, tracked, follows, remote, is_delete, tasks, new_synced,
                   del_synced, series_url, calls, run, prev, tracked0, remote0,
                   nsyncs, file0>>

\* write_tracked_series: atomic_write renames the temporary file into place
SaveCommit ==
    /\ pc = "written"
    /\ file' = tmp
    /\ tmp' = NoFile
    /\ pc' = "saved"
    /\ UNCHANGED <<tracked, follows, remote, is_delete, tasks, new_synced,
                   del_synced, series_url, calls, run, prev, tracked0, remote0,
                   nsyncs, file0>>

\* the process is interrupted during write_tracked_series
SaveInterrupted ==
    /\ pc \in {"writing", "written"}
    /\ pc' = "interrupted"
    /\ UNCHANGED <<file, tmp, tracked, follows, remote, is_delete, tasks,
                   new_synced, del_synced, series_url, calls, run, prev,
                   tracked0, remote0, nsyncs, file0>>

-----------------------------------------------------------------------------
(* The remote catalogue *)

\* launch of the i-th part of the v-th volume of a series
LaunchDates ==
    <<<<"2021-01-01T00:00:00Z", "2021-01-02T00:00:00Z", "2021-01-03T00:00:00Z">>,
      <<"2022-01-01T00:00:00Z", "2022-01-02T00:00:00Z", "2022-01-03T00:00:00Z">>,
      <<"2023-01-01T00:00:00Z", "2023-01-02T00:00:00Z", "2023-01-03T00:00:00Z">>>>

\* what the catalogue may hold for a series: its volumes, each given by the
\* number of its published parts
Catalogues == UNION {[1..n -> 0..MaxParts] : n \in 0..MaxVolumes}

\* core.fetch_parts_meta : the parts of the v-th volume
fetch_parts_meta(cat, v) ==
    [i \in 1..cat[v] |-> [ordinal |-> i, launch |-> LaunchDates[v][i]]]

\* core.fetch_volumes_meta : the volumes of the series, parts not yet fetched
fetch_volumes_meta(cat) == [v \in DOMAIN cat |-> [volume_id |-> v, parts |-> <<>>]]

\* spec.to_relative_spec_from_part : the relative ordinal of the part
to_relative_spec_from_part(part) == part.ordinal

\* the sentinel of track_series for "no part yet"
NoPartDate == "1111-11-11T11:11:11.111Z"

-----------------------------------------------------------------------------
(* track_series *)

\* fill_meta_for_track : the volumes, and the parts of the last volume only
fill_meta_for_track(series, cat) ==
    LET volumes == fetch_volumes_meta(cat)
    IN [series EXCEPT !.volumes =
           IF volumes = <<>> THEN volumes
           ELSE [volumes EXCEPT ![Len(volumes)].parts =
                    fetch_parts_meta(cat, volumes[Len(volumes)].volume_id)]]

\* track_series, lines 96-100: last_part, as a sequence of at most one part
LastPart(series) ==
    IF series.volumes # <<>>
    THEN LET last_volume == series.volumes[Len(series.volumes)]
         IN IF last_volume.parts # <<>>
            THEN <<last_volume.parts[Len(last_volume.parts)]>>
            ELSE <<>>
    ELSE <<>>

\* track_series, lines 103-135: the record written for the series
TrackRecord(series) ==
    LET last_part == LastPart(series)
    IN IF last_part = <<>>
       THEN [part_date |-> NoPartDate, part |-> 0,
             name |-> series.raw_data.title]
       ELSE [part_date |-> last_part[1].launch,
             part |-> to_relative_spec_from_part(last_part[1]),
             name |-> series.raw_data.title]

\* a track_series that writes the entry under the old website's URL
TrackKey_Legacy(series) == legacy_url(series.raw_data.slug)

\* track_series, line 130: the key written for the series
TrackKey(series) == url_from_series_slug(series.raw_data.slug)

\* track_series, once fill_meta_for_track has returned
track_series(tracked_series, series) ==
    Put(tracked_series, TrackKey(series), TrackRecord(series))

-----------------------------------------------------------------------------
(* Tasks of a nursery *)

NoCatalogue == <<>>

Task(kind, jnc_resource, at) ==
    [kind |-> kind, jnc_resource |-> jnc_resource, pc |-> at, cat |-> NoCatalogue]

Finished(t) == t.pc \in {"done", "failed"}

Called(op, slug) == [calls EXCEPT ![op][slug] = @ + 1]

\* one task takes a step
TaskAt(i, at, to) == [tasks EXCEPT ![i].pc = to, ![i].cat = NoCatalogue]

-----------------------------------------------------------------------------
(* sync_series_forward *)

\* a sync that tracks every follow again
NeedsTrack_Always(jnc_resource, tracked_series) == TRUE

\* a sync that tracks again what is tracked
NeedsTrack_Inverted(jnc_resource, tracked_series) ==
    jnc_resource.url \in Keys(tracked_series)

\* line 145, negated: the follow gets a task
NeedsTrack(jnc_resource, tracked_series) ==
    jnc_resource.url \notin Keys(tracked_series)

\* lines 144-156: the tasks spawned, in the order of the follows
RECURSIVE ForwardTasks(_, _, _)
ForwardTasks(fs, from, tracked_series) ==
    IF from > Len(fs) THEN <<>>
    ELSE (IF NeedsTrack(fs[from], tracked_series)
          THEN <<Task("track", fs[from], "resolve")>> ELSE <<>>)
         \o ForwardTasks(fs, from + 1, tracked_series)

\* a sync that deletes whatever the flag
DeleteEnabled_Always(flag) == TRUE

\* line 161: the deletion runs
DeleteEnabled(flag) == flag

\* a deletion with its test inverted
KeepFollowed_Inverted(tracked_series, fs) ==
    SelectSeq(tracked_series, LAMBDA e : e.key \notin FollowUrls(fs))

\* lines 162-166: the entries kept by the deletion
KeepFollowed(tracked_series, fs) ==
    LET followed_index == FollowUrls(fs)
    IN SelectSeq(tracked_series, LAMBDA e : e.key \in followed_index)

\* lines 162-170: the URLs deleted, in the order of the store
DeletedUrls(tracked_series, fs) ==
    LET followed_index == FollowUrls(fs)
        gone == SelectSeq(tracked_series, LAMBDA e : e.key \notin followed_index)
    IN [i \in DOMAIN gone |-> gone[i].key]

\* sync_series_forward is called: lines 140-156, up to the await of line 159
ForwardStart ==
    /\ pc = "ready"
    /\ nsyncs < MaxSyncs
    /\ \E d \in BOOLEAN :
        /\ is_delete' = d
        /\ run' = [kind |-> "forward", is_delete |-> d, outcome |-> "running"]
    /\ prev' = run
    /\ nsyncs' = nsyncs + 1
    /\ pc' = "forward"
    /\ new_synced' = <<>>
    /\ del_synced' = <<>>
    /\ tasks' = ForwardTasks(follows, 1, tracked)
    /\ calls' = NoCalls
    /\ tracked0' = tracked
    /\ remote0' = remote
    /\ UNCHANGED <<file, tmp, tracked, follows, remote, series_url, file0>>

\* do_track, line 149: resolve_series returns
TrackResolve(i) ==
    /\ pc = "forward"
    /\ tasks[i].kind = "track"
    /\ tasks[i].pc = "resolve"
    /\ calls' = Called("resolve", tasks[i].jnc_resource.slug)
    /\ tasks' = TaskAt(i, "resolve", "volumes")
    /\ UNCHANGED <<file, tmp, pc, tracked, follows, remote, is_delete,
                   new_synced, del_synced, series_url, run, prev, tracked0,
                   remote0, nsyncs, file0>>

\* a do_track whose append to new_synced is lost
TrackDone_AppendLost(i, cat) ==
    LET resolved == resolve_series(tasks[i].jnc_resource)
        series == fill_meta_for_track(
                      [series_id |-> resolved.series_id,
                       raw_data |-> resolved.raw_data, volumes |-> <<>>], cat)
    IN /\ tracked' = track_series(tracked, series)
       /\ new_synced' = new_synced
       /\ tasks' = TaskAt(i, tasks[i].pc, "done")

\* do_track, lines 150-153 once the metadata is there: the entry is written
\* and the URL is appended to new_synced
TrackDone(i, cat) ==
    LET resolved == resolve_series(tasks[i].jnc_resource)
        series == fill_meta_for_track(
                      [series_id |-> resolved.series_id,
                       raw_data |-> resolved.raw_data, volumes |-> <<>>], cat)
    IN /\ tracked' = track_series(tracked, series)
       /\ new_synced' = Append(new_synced,
                               url_from_series_slug(series.raw_data.slug))
       /\ tasks' = TaskAt(i, tasks[i].pc, "done")

\* fill_meta_for_track, line 76: fetch_volumes_meta returns; with no volume
\* track_series runs to its end
TrackVolumes(i) ==
    /\ pc = "forward"
    /\ tasks[i].kind = "track"
    /\ tasks[i].pc = "volumes"
    /\ calls' = Called("volumes", tasks[i].jnc_resource.slug)
    /\ \E cat \in Catalogues :
        IF cat # <<>>
        THEN /\ tasks' = [tasks EXCEPT ![i].pc = "parts", ![i].cat = cat]
             /\ UNCHANGED <<tracked, new_synced>>
        ELSE TrackDone(i, cat)
    /\ UNCHANGED <<file, tmp, pc, follows, remote, is_delete, del_synced,
                   series_url, run, prev, tracked0, remote0, nsyncs, file0>>

\* fill_meta_for_track, line 84: fetch_parts_meta returns, track_series runs
\* to its end
TrackParts(i) ==
    /\ pc = "forward"
    /\ tasks[i].kind = "track"
    /\ tasks[i].pc = "parts"
    /\ calls' = Called("parts", tasks[i].jnc_resource.slug)
    /\ TrackDone(i, tasks[i].cat)
    /\ UNCHANGED <<file, tmp, pc, follows, remote, is_delete, del_synced,
                   series_url, run, prev, tracked0, remote0, nsyncs, file0>>

\* the gateway call a task waits for fails (not found, transport, auth)
TaskFails(i) ==
    /\ pc \in {"forward", "backward"}
    /\ tasks[i].pc \in {"resolve", "volumes", "parts", "follow", "unfollow"}
    /\ calls' = Called(tasks[i].pc, tasks[i].jnc_resource.slug)
    /\ tasks' = TaskAt(i, tasks[i].pc, "failed")
    /\ UNCHANGED <<file, tmp, pc, tracked, follows, remote, is_delete,
                   new_synced, del_synced, series_url, run, prev, tracked0,
                   remote0, nsyncs, file0>>

\* the batch is cancelled while tasks are in flight (a user interrupt): every
\* task that waits for the gateway is aborted where it waits, and the
\* cancellation leaves the sync and the program
Cancel ==
    /\ pc \in {"forward", "backward"}
    /\ \E i \in DOMAIN tasks : ~Finished(tasks[i])
    /\ tasks' = [i \in DOMAIN tasks |->
                   IF Finished(tasks[i]) THEN tasks[i]
                   ELSE [tasks[i] EXCEPT !.pc = "cancelled",
                                         !.cat = NoCatalogue]]
    /\ pc' = "cancelled"
    /\ run' = [run EXCEPT !.outcome = "cancelled"]
    /\ UNCHANGED <<file, tmp, tracked, follows, remote, is_delete, new_synced,
                   del_synced, series_url, calls, prev, tracked0, remote0,
                   nsyncs, file0>>

\* line 159: gather has drained the tasks and one of them failed
ForwardRaises ==
    /\ pc = "forward"
    /\ \A i \in DOMAIN tasks : Finished(tasks[i])
    /\ \E i \in DOMAIN tasks : tasks[i].pc = "failed"
    /\ pc' = "ready"
    /\ run' = [run EXCEPT !.outcome = "raised"]
    /\ UNCHANGED <<file, tmp, tracked, follows, remote, is_delete, tasks,
                   new_synced, del_synced, series_url, calls, prev, tracked0,
                   remote0, nsyncs, file0>>

\* a sync that drains the tasks and drops their exceptions
ForwardReturns_DropsFailures ==
    /\ pc = "forward"
    /\ \A i \in DOMAIN tasks : Finished(tasks[i])
    /\ IF DeleteEnabled(is_delete)
       THEN /\ tracked' = KeepFollowed(tracked, follows)
            /\ del_synced' = DeletedUrls(tracked, follows)
       ELSE UNCHANGED <<tracked, del_synced>>
    /\ pc' = "ready"
    /\ run' = [run EXCEPT !.outcome = "returned"]
    /\ UNCHANGED <<file, tmp, follows, remote, is_delete, tasks, new_synced,
                   series_url, calls, prev, tracked0, remote0, nsyncs, file0>>

\* a sync that returns without waiting for its tasks
ForwardReturns_Early ==
    /\ pc = "forward"
    /\ \A i \in DOMAIN tasks : tasks[i].pc # "failed"
    /\ IF DeleteEnabled(is_delete)
       THEN /\ tracked' = KeepFollowed(tracked, follows)
            /\ del_synced' = DeletedUrls(tracked, follows)
       ELSE UNCHANGED <<tracked, del_synced>>
    /\ pc' = "ready"
    /\ run' = [run EXCEPT !.outcome = "returned"]
    /\ UNCHANGED <<file, tmp, follows, remote, is_delete, tasks, new_synced,
                   series_url, calls, prev, tracked0, remote0, nsyncs, file0>>

\* lines 159-172: gather has drained the tasks, the deletion, the return
ForwardReturns ==
    /\ pc = "forward"
    /\ \A i \in DOMAIN tasks : tasks[i].pc = "done"
    /\ IF DeleteEnabled(is_delete)
       THEN /\ tracked' = KeepFollowed(tracked, follows)
            /\ del_synced' = DeletedUrls(tracked, follows)
       ELSE UNCHANGED <<tracked, del_synced>>
    /\ pc' = "ready"
    /\ run' = [run EXCEPT !.outcome = "returned"]
    /\ UNCHANGED <<file, tmp, follows, remote, is_delete, tasks, new_synced,
                   series_url, calls, prev, tracked0, remote0, nsyncs, file0>>

-----------------------------------------------------------------------------
(* sync_series_backward *)

\* line 185, negated: the tracked series gets a do_follow task
NeedsFollow(url, followed_index) == url \notin followed_index

\* a sync that unfollows what is tracked
NeedsUnfollow_Inverted(jnc_resource, tracked_series) ==
    jnc_resource.url \in Keys(tracked_series)

\* line 207: the follow gets a do_undollow task
NeedsUnfollow(jnc_resource, tracked_series) ==
    jnc_resource.url \notin Keys(tracked_series)

\* lines 183-203: the do_follow tasks spawned, in the order of the store
RECURSIVE FollowTasks(_, _, _)
FollowTasks(tracked_series, from, followed_index) ==
    IF from > Len(tracked_series) THEN <<>>
    ELSE (IF NeedsFollow(tracked_series[from].key, followed_index)
          THEN <<Task("follow", resource_from_url(tracked_series[from].key),
                      "resolve")>>
          ELSE <<>>)
         \o FollowTasks(tracked_series, from + 1, followed_index)

\* lines 206-219: the do_undollow tasks spawned, in the order of the follows
RECURSIVE UnfollowTasks(_, _, _)
UnfollowTasks(fs, from, tracked_series) ==
    IF from > Len(fs) THEN <<>>
    ELSE (IF NeedsUnfollow(fs[from], tracked_series)
          THEN <<Task("unfollow", fs[from], "unfollow")>> ELSE <<>>)
         \o UnfollowTasks(fs, from + 1, tracked_series)

\* line 183: the value the loop leaves in series_url, the variable of the
\* enclosing function that do_follow reads when it runs
LoopVariableAfter(tracked_series, before) ==
    IF tracked_series = <<>> THEN before
    ELSE tracked_series[Len(tracked_series)].key

\* line 200: what do_follow appends to new_synced
FollowSynced(task) == series_url

\* line 216: what do_undollow appends to del_synced
UnfollowSynced(task) == task.jnc_resource.url

\* sync_series_backward is called: lines 177-219, up to the await of line 221
BackwardStart ==
    /\ pc = "ready"
    /\ nsyncs < MaxSyncs
    /\ \E d \in BOOLEAN :
        /\ is_delete' = d
        /\ run' = [kind |-> "backward", is_delete |-> d, outcome |-> "running"]
        /\ tasks' = FollowTasks(tracked, 1, FollowUrls(follows))
                    \o (IF d THEN UnfollowTasks(follows, 1, tracked) ELSE <<>>)
    /\ prev' = run
    /\ nsyncs' = nsyncs + 1
    /\ pc' = "backward"
    /\ new_synced' = <<>>
    /\ del_synced' = <<>>
    /\ series_url' = LoopVariableAfter(tracked, series_url)
    /\ calls' = NoCalls
    /\ tracked0' = tracked
    /\ remote0' = remote
    /\ UNCHANGED <<file, tmp, tracked, follows, remote, file0>>

\* do_follow, line 193: resolve_series returns
FollowResolve(i) ==
    /\ pc = "backward"
    /\ tasks[i].kind = "follow"
    /\ tasks[i].pc = "resolve"
    /\ calls' = Called("resolve", tasks[i].jnc_resource.slug)
    /\ tasks' = TaskAt(i, "resolve", "follow")
    /\ UNCHANGED <<file, tmp, pc, tracked, follows, remote, is_delete,
                   new_synced, del_synced, series_url, run, prev, tracked0,
                   remote0, nsyncs, file0>>

\* do_follow, lines 198-200: follow_series returns
FollowDone(i) ==
    /\ pc = "backward"
    /\ tasks[i].kind = "follow"
    /\ tasks[i].pc = "follow"
    /\ calls' = Called("follow", tasks[i].jnc_resource.slug)
    /\ remote' = remote \cup {resolve_series(tasks[i].jnc_resource).series_id}
    /\ new_synced' = Append(new_synced, FollowSynced(tasks[i]))
    /\ tasks' = TaskAt(i, "follow", "done")
    /\ UNCHANGED <<file, tmp, pc, tracked, follows, is_delete, del_synced,
                   series_url, run, prev, tracked0, remote0, nsyncs, file0>>

\* do_undollow, lines 211-216: unfollow_series returns
UnfollowDone(i) ==
    /\ pc = "backward"
    /\ tasks[i].kind = "unfollow"
    /\ tasks[i].pc = "unfollow"
    /\ calls' = Called("unfollow", tasks[i].jnc_resource.slug)
    /\ remote' = remote \ {tasks[i].jnc_resource.follow_raw_data.id}
    /\ del_synced' = Append(del_synced, UnfollowSynced(tasks[i]))
    /\ tasks' = TaskAt(i, "unfollow", "done")
    /\ UNCHANGED <<file, tmp, pc, tracked, follows, is_delete, new_synced,
                   series_url, run, prev, tracked0, remote0, nsyncs, file0>>

\* line 221: gather has drained the tasks and one of them failed
BackwardRaises ==
    /\ pc = "backward"
    /\ \A i \in DOMAIN tasks : Finished(tasks[i])
    /\ \E i \in DOMAIN tasks : tasks[i].pc = "failed"
    /\ pc' = "ready"
    /\ run' = [run EXCEPT !.outcome = "raised"]
    /\ UNCHANGED <<file, tmp, tracked, follows, remote, is_delete, tasks,
                   new_synced, del_synced, series_url, calls, prev, tracked0,
                   remote0, nsyncs, file0>>

\* a sync that drops from the store what the follows do not hold
BackwardReturns_Pops ==
    /\ pc = "backward"
    /\ \A i \in DOMAIN tasks : tasks[i].pc = "done"
    /\ pc' = "ready"
    /\ run' = [run EXCEPT !.outcome = "returned"]
    /\ tracked' = KeepFollowed(tracked, follows)
    /\ UNCHANGED <<file, tmp, follows, remote, is_delete, tasks,
                   new_synced, del_synced, series_url, calls, prev, tracked0,
                   remote0, nsyncs, file0>>

\* lines 221-223: gather has drained the tasks, the return
BackwardReturns ==
    /\ pc = "backward"
    /\ \A i \in DOMAIN tasks : tasks[i].pc = "done"
    /\ pc' = "ready"
    /\ run' = [run EXCEPT !.outcome = "returned"]
    /\ UNCHANGED <<file, tmp, tracked, follows, remote, is_delete, tasks,
                   new_synced, del_synced, series_url, calls, prev, tracked0,
                   remote0, nsyncs, file0>>

Next ==
    \/ read_tracked_series
    \/ ForwardStart
    \/ \E i \in DOMAIN tasks : TrackResolve(i)
    \/ \E i \in DOMAIN tasks : TrackVolumes(i)
    \/ \E i \in DOMAIN tasks : TrackParts(i)
    \/ \E i \in DOMAIN tasks : TaskFails(i)
    \/ Cancel
    \/ ForwardRaises
    \/ ForwardReturns
    \/ BackwardStart
    \/ \E i \in DOMAIN tasks : FollowResolve(i)
    \/ \E i \in DOMAIN tasks : FollowDone(i)
    \/ \E i \in DOMAIN tasks : UnfollowDone(i)
    \/ BackwardRaises
    \/ BackwardReturns
    \/ SaveOpen
    \/ SaveWrite
    \/ SaveClose
    \/ SaveCommit
    \/ SaveInterrupted

Spec == Init /\ [][Next]_vars

-----------------------------------------------------------------------------
(* Properties *)

ElemsOf(seq) == {seq[i] : i \in DOMAIN seq}

FollowIds(fs) == {fs[i].follow_raw_data.id : i \in DOMAIN fs}

\* the URLs of the series followed on the remote side
RemoteUrls == {url_from_series_slug(s) : s \in {x \in Slugs : RemoteId(x) \in remote}}

\* the series for which the running (or last) sync issued the call
CalledFor(op) == {url_from_series_slug(s) : s \in {x \in Slugs : calls[op][x] > 0}}

RECURSIVE SumCalls(_, _)
SumCalls(op, S) ==
    IF S = {} THEN 0
    ELSE LET s == CHOOSE x \in S : TRUE
         IN calls[op][s] + SumCalls(op, S \ {s})

Returned(kind) ==
    pc = "ready" /\ run.kind = kind /\ run.outcome = "returned"

\* C1: when sync_series_forward returns with is_delete = true, the keys of
\* the tracked store are exactly the URLs of the follows.
C1_ForwardDeleteKeysAreFollows ==
    (Returned("forward") /\ run.is_delete)
        => Keys(tracked) = FollowUrls(follows)

\* C1 happens: a forward sync with deletion that both added and deleted
C1_Witness ==
    /\ Returned("forward") /\ run.is_delete
    /\ new_synced # <<>>
    /\ del_synced # <<>>

\* C2: when sync_series_backward returns with is_delete = true, having
\* started with the remote follows being those of the list, the remote
\* followed URLs are exactly the keys of the store; follow was called for
\* exactly the tracked URLs absent from the follows and unfollow for exactly
\* the follow URLs absent from the store.
C2_BackwardDeleteRemoteIsTracked ==
    (Returned("backward") /\ run.is_delete /\ remote0 = FollowIds(follows))
        => /\ RemoteUrls = Keys(tracked)
           /\ CalledFor("follow") = Keys(tracked) \ FollowUrls(follows)
           /\ CalledFor("unfollow") = FollowUrls(follows) \ Keys(tracked)

\* C2 happens: a backward sync with deletion that followed and unfollowed
C2_Witness ==
    /\ Returned("backward") /\ run.is_delete /\ remote0 = FollowIds(follows)
    /\ CalledFor("follow") # {}
    /\ CalledFor("unfollow") # {}

\* C3: when sync_series_backward returns, added holds exactly the tracked
\* URLs that were absent from the follows and removed holds exactly the
\* follow URLs that were unfollowed.
C3_BackwardResultSymmetric ==
    Returned("backward")
        => /\ ElemsOf(new_synced) = Keys(tracked0) \ FollowUrls(follows)
           /\ ElemsOf(del_synced) =
                  IF run.is_delete THEN FollowUrls(follows) \ Keys(tracked0)
                  ELSE {}

\* C4: a forward sync that returns right after a forward sync that returned,
\* with the same follows and the same is_delete, adds nothing, removes
\* nothing and leaves the store as it was.
C4_SecondForwardIsEmpty ==
    (/\ Returned("forward")
     /\ prev.kind = "forward" /\ prev.outcome = "returned"
     /\ prev.is_delete = run.is_delete)
        => /\ new_synced = <<>>
           /\ del_synced = <<>>
           /\ tracked = tracked0

\* C4 happens: the second of two forward syncs, the first of which had to
\* track every follow (the file was absent)
C4_Witness ==
    /\ Returned("forward")
    /\ prev.kind = "forward" /\ prev.outcome = "returned"
    /\ prev.is_delete = run.is_delete
    /\ file.state = "absent"
    /\ Len(tracked) = 2

\* C5: a forward sync issues no resolve_series, fetch_volumes_meta or
\* fetch_parts_meta call for a follow whose URL was a key of the store when
\* it started, and once it is over it has issued as many resolve_series
\* calls as there are follows whose URL was not a key.
C5_ForwardNeverRefetches ==
    run.kind = "forward"
        => /\ \A op \in {"resolve", "volumes", "parts"} :
                CalledFor(op) \cap Keys(tracked0) = {}
           /\ run.outcome \in {"returned", "raised"}
                => SumCalls("resolve", Slugs) =
                     Cardinality({i \in DOMAIN follows :
                                    follows[i].url \notin Keys(tracked0)})

\* C5 happens: a forward sync is over that skipped a tracked follow and
\* resolved another
C5_Witness ==
    /\ run.kind = "forward" /\ run.outcome \in {"returned", "raised"}
    /\ FollowUrls(follows) \cap Keys(tracked0) # {}
    /\ SumCalls("resolve", Slugs) > 0

\* C6: with is_delete = false a forward sync removes no entry and its
\* removed list stays empty; with no follow the store stays as it was.
C6_ForwardWithoutDeleteKeeps ==
    (run.kind = "forward" /\ ~run.is_delete)
        => /\ Keys(tracked0) \subseteq Keys(tracked)
           /\ del_synced = <<>>
           /\ follows = <<>> => tracked = tracked0

\* C6 happens: a forward sync without deletion returned and the store holds
\* a series that is not followed
C6_Witness ==
    /\ Returned("forward") /\ ~run.is_delete
    /\ Keys(tracked) \ FollowUrls(follows) # {}

\* the catalogue holds a published part of the series
HasParts(cat) == \E v \in DOMAIN cat : cat[v] > 0

\* C7: the entry track_series writes records part 0 and the sentinel date
\* when the series has no published part at all, and otherwise the ordinal
\* and the launch of the last part of the last volume.  (A task that ends
\* from "volumes" got no volume; one that ends from "parts" holds in cat the
\* catalogue of its series.)
C7_TrackRecordsLastPart ==
    [][\A i \in DOMAIN tasks :
         (tasks[i].kind = "track" /\ tasks[i].pc \in {"volumes", "parts"}
            /\ i \in DOMAIN tasks' /\ tasks'[i].pc = "done")
         => LET cat == tasks[i].cat
                written == Get(tracked', tasks[i].jnc_resource.url)
            IN IF ~HasParts(cat)
               THEN written.part = 0 /\ written.part_date = NoPartDate
               ELSE /\ cat[Len(cat)] > 0
                    /\ written.part = cat[Len(cat)]
                    /\ written.part_date = LaunchDates[Len(cat)][cat[Len(cat)]]
      ]_vars

\* the store holds only records under URLs of the current website
IsCurrentFormat(d) ==
    \A i \in DOMAIN d : IsDict(d[i].value) /\ IsCurrentUrl(d[i].key)

\* C8: migrating twice gives what migrating once gives, for the file read
\* and for every store the program holds, and migrating data that is in
\* the current format gives the same data.
C8_MigrationIdempotent ==
    /\ file.state = "json"
          => LET once == convert_to_latest_format(file.data)
             IN /\ convert_to_latest_format(once) = once
                /\ IsCurrentFormat(file.data) => once = file.data
    /\ pc # "init" => convert_to_latest_format(tracked) = tracked

\* C8 happens: a file in a legacy format (a bare part, a legacy URL) was read
C8_Witness ==
    /\ pc = "ready" /\ nsyncs = 0
    /\ file.state = "json"
    /\ \E i, j \in DOMAIN file.data :
          ~IsDict(file.data[i].value) /\ file.data[j].key.form = "legacy"

\* C9: once the file is read, every key of the tracked store is a URL of the
\* current website, through any sequence of forward and backward syncs.
C9_KeysAreCurrentUrls ==
    pc # "init" => \A k \in Keys(tracked) : IsCurrentUrl(k)

\* C9 happens: a legacy file was read and a forward sync added an entry
C9_Witness ==
    /\ Returned("forward")
    /\ new_synced # <<>>
    /\ file.state = "json"
    /\ \E i \in DOMAIN file.data : ~IsCurrentUrl(file.data[i].key)
    /\ Len(tracked) = 2

\* C10: the file is never partially written; until the rename it is what it
\* was when the save started; after the rename it holds the store.
C10_SaveIsAtomic ==
    /\ file.state # "partial"
    /\ pc \in {"writing", "written", "interrupted"} => file = file0
    /\ pc = "saved" => file = JsonFile(Dumps(tracked))

\* C10 happens: the save was interrupted with the temporary file half
\* written, over a file that differs from the store
C10_Witness ==
    /\ pc = "interrupted"
    /\ tmp.state = "partial" /\ Len(tmp.data) = 1 /\ Len(tracked) = 2
    /\ file.state = "json"
    /\ file.data # Dumps(tracked)

\* the effect of a task that ran to its end is there
EffectApplied(t) ==
    CASE t.kind = "track" ->
             /\ t.jnc_resource.url \in Keys(tracked)
             /\ t.jnc_resource.url \in ElemsOf(new_synced)
      [] t.kind = "follow" ->
             /\ RemoteId(t.jnc_resource.slug) \in remote
             /\ new_synced # <<>>
      [] t.kind = "unfollow" ->
             /\ RemoteId(t.jnc_resource.slug) \notin remote
             /\ t.jnc_resource.url \in ElemsOf(del_synced)

\* C11: when a task of a sync fails, its siblings are not cancelled: the sync
\* is over only once every task has run to its end or failed, the effect of
\* every task that ran to its end is applied, and the call raises; a sync
\* returns normally only when no task failed.
C11_FailureDoesNotCancelSiblings ==
    /\ run.outcome = "raised"
          => /\ \E i \in DOMAIN tasks : tasks[i].pc = "failed"
             /\ \A i \in DOMAIN tasks :
                   \/ tasks[i].pc = "failed"
                   \/ tasks[i].pc = "done" /\ EffectApplied(tasks[i])
    /\ run.outcome = "returned" => \A i \in DOMAIN tasks : tasks[i].pc = "done"
    /\ run.outcome # "cancelled"
          => \A i \in DOMAIN tasks : tasks[i].pc # "cancelled"

\* C11 happens: a forward sync raised with the first task failed and its
\* sibling's entry in the store
C11_Witness ==
    /\ run.kind = "forward" /\ run.outcome = "raised"
    /\ Len(tasks) = 2
    /\ tasks[1].pc = "failed" /\ tasks[2].pc = "done"
    /\ tasks[2].jnc_resource.url \in Keys(tracked)

\* the record has the fields of the current schema
IsCompleteRecord(value) == DOMAIN value = {"part_date", "part", "name"}

\* the entry was written by a task of the running sync that ran to its end,
\* and its URL is in added
WrittenByDoneTask(e) ==
    /\ e.key \in ElemsOf(new_synced)
    /\ \E i \in DOMAIN tasks :
          /\ tasks[i].kind = "track" /\ tasks[i].pc = "done"
          /\ tasks[i].jnc_resource.url = e.key

\* C12: when the batch of a forward sync is cancelled with tasks in flight,
\* every entry of the store either was there before the run or was written
\* by a task that ran to its end (its URL in added), and every entry is a
\* complete record with part_date, part and name.
C12_CancelLeavesNoPartialEffect ==
    (run.kind = "forward" /\ run.outcome = "cancelled")
        => \A i \in DOMAIN tracked :
              /\ tracked[i] \in ElemsOf(tracked0) \/ WrittenByDoneTask(tracked[i])
              /\ IsCompleteRecord(tracked[i].value)

\* C13: migration never silently loses tracking data: a load that does not
\* fail yields a store with one entry for each stored entry (two stored keys
\* are never collapsed into one), and every entry of that store is a record
\* of the current schema (name, part, part_date); a stored record that
\* cannot be coerced into it makes the load fail.
C13_MigrationLosesNothing ==
    [][(pc = "init" /\ pc' = "ready")
          => /\ Len(tracked') = Len(file.data)
             /\ \A i \in DOMAIN tracked' : IsCompleteRecord(tracked'[i].value)]_vars

\* C14: read_tracked_series returns an empty store, not an error, when the
\* file is absent; a malformed file surfaces an error to the caller and
\* never yields a store, empty or partial: the program does not go past the
\* load, and the error is raised for a malformed file only.
C14_AbsentIsEmptyMalformedIsFatal ==
    /\ file.state = "malformed" => pc \in {"init", "load_error"} /\ tracked = <<>>
    /\ pc = "load_error" => file.state = "malformed"
    /\ (file0.state = "absent" /\ pc = "ready" /\ nsyncs = 0) => tracked = <<>>

\* C14 happens: the load of a malformed file has raised
C14_Witness ==
    /\ pc = "load_error"
    /\ file.state = "malformed"

\* the elements of seq in the order of their first occurrence
RECURSIVE FirstOccurrences(_)
FirstOccurrences(seq) ==
    IF seq = <<>> THEN <<>>
    ELSE LET front == SubSeq(seq, 1, Len(seq) - 1)
             last == seq[Len(seq)]
         IN IF last \in ElemsOf(front) THEN FirstOccurrences(front)
            ELSE Append(FirstOccurrences(front), last)

\* the keys of d in its order
KeySeq(d) == [i \in DOMAIN d |-> d[i].key]

\* the track tasks of the running sync that ran to their end, for url
DoneTracks(url) ==
    {i \in DOMAIN tasks : /\ tasks[i].kind = "track" /\ tasks[i].pc = "done"
                          /\ tasks[i].jnc_resource.url = url}

\* the positions of url in seq
Occurrences(seq, url) == {i \in DOMAIN seq : seq[i] = url}

\* C15: the tasks of a forward sync never leave the store and added half
\* updated: in every interleaving, before the deletion, added holds one URL
\* for each task that ran to its end and nothing else, and the store is the
\* store of before the run followed by one complete entry for each URL of
\* added in the order of the first appends, as after a sequential execution
\* of those tasks.
C15_InsertAndAppendAreOneStep ==
    (run.kind = "forward" /\ (run.outcome # "returned" \/ ~run.is_delete))
        => /\ \A url \in FollowUrls(follows) \cup ElemsOf(new_synced) :
                 Cardinality(Occurrences(new_synced, url))
                     = Cardinality(DoneTracks(url))
           /\ KeySeq(tracked) = KeySeq(tracked0) \o FirstOccurrences(new_synced)
           /\ \A i \in DOMAIN tracked :
                 i > Len(tracked0) => IsCompleteRecord(tracked[i].value)

\* C15 happens: the task spawned second has run to its end, its entry and
\* its URL are there, while the task spawned first still waits for the parts
C15_Witness ==
    /\ run.kind = "forward" /\ run.outcome = "running"
    /\ Len(tasks) = 2
    /\ tasks[1].pc = "parts" /\ tasks[2].pc = "done"
    /\ new_synced = <<tasks[2].jnc_resource.url>>
    /\ tasks[2].jnc_resource.url \in Keys(tracked)

\* C16: within one forward sync each spawned task writes a distinct key of
\* the store, the URL of its own follow: no two tasks have the same URL and
\* added holds no URL twice, for every follow list.
C16_TasksWriteDistinctKeys ==
    run.kind = "forward"
        => /\ \A i, j \in DOMAIN tasks :
                 i # j => tasks[i].jnc_resource.url # tasks[j].jnc_resource.url
           /\ \A i, j \in DOMAIN new_synced :
                 i # j => new_synced[i] # new_synced[j]

\* the URLs of the tasks of the given kind of the running (or last) sync
TaskUrls(kind) ==
    {tasks[i].jnc_resource.url : i \in {j \in DOMAIN tasks : tasks[j].kind = kind}}

\* the sync before the running (or last) one was a forward sync that returned
AfterForward ==
    /\ run.kind = "backward"
    /\ prev.kind = "forward" /\ prev.outcome = "returned"

\* C17: sync_series_forward returns only after every task it spawned has
\* terminated and its deletions are applied; a backward sync started
\* afterwards has no forward task left beside it, works on the store as
\* forward left it (its follow tasks are the keys of that store that are not
\* followed), and after a failure-free forward sync with is_delete = true it
\* spawns no task and issues no follow and no unfollow call.
C17_ForwardCompletesBeforeBackward ==
    /\ (run.kind = "forward" /\ pc = "ready")
          => \A i \in DOMAIN tasks : Finished(tasks[i])
    /\ Returned("forward")
          => /\ \A i \in DOMAIN tasks : tasks[i].pc = "done"
             /\ ElemsOf(new_synced) \subseteq Keys(tracked)
             /\ run.is_delete
                   => /\ Keys(tracked) \subseteq FollowUrls(follows)
                      /\ ElemsOf(del_synced) \cap Keys(tracked) = {}
    /\ run.kind = "backward"
          => /\ \A i \in DOMAIN tasks : tasks[i].kind # "track"
             /\ tracked = tracked0
    /\ AfterForward
          => /\ TaskUrls("follow") = Keys(tracked) \ FollowUrls(follows)
             /\ prev.is_delete
                   => /\ tasks = <<>>
                      /\ CalledFor("follow") = {} /\ CalledFor("unfollow") = {}
                      /\ remote = remote0

\* C17 happens: a backward sync with is_delete = true has returned after a
\* forward sync with is_delete = true that changed the keys of the loaded
\* store
C17_Witness ==
    /\ AfterForward /\ prev.is_delete
    /\ Returned("backward") /\ run.is_delete
    /\ file0.state = "json"
    /\ tracked # <<>>
    /\ Keys(tracked) # Keys(LoadedStore(file0))

\* C18: sync_series_forward never modifies the value of an entry that was
\* in the store when the run started: at every point of the run such an
\* entry is in the store exactly as it was, or it is gone, and then the run
\* has returned with is_delete = true and the URL is not among the follows.
C18_ForwardKeepsExistingValues ==
    run.kind = "forward"
        => \A i \in DOMAIN tracked0 :
              \/ tracked0[i] \in ElemsOf(tracked)
              \/ /\ tracked0[i].key \notin Keys(tracked)
                 /\ run.outcome = "returned" /\ run.is_delete
                 /\ tracked0[i].key \notin FollowUrls(follows)

\* C18 happens: a forward sync with is_delete = true has returned, it kept
\* an entry of before the run, which is followed, and removed the other
C18_Witness ==
    /\ Returned("forward") /\ run.is_delete
    /\ Len(tracked0) = 2 /\ Len(tracked) = 1
    /\ tracked[1] \in ElemsOf(tracked0)
    /\ tracked[1].key \in FollowUrls(follows)
    /\ Len(del_synced) = 1

\* C19: sync_series_backward never mutates the tracked store: at every
\* point of the run, for either value of is_delete and whether or not tasks
\* fail, the store is the store of before the run; sync_series_forward
\* never issues a follow or an unfollow call, and leaves the remote follows
\* as they were.
C19_BackwardKeepsStoreForwardKeepsRemote ==
    /\ run.kind = "backward" => tracked = tracked0
    /\ run.kind = "forward"
          => /\ CalledFor("follow") = {} /\ CalledFor("unfollow") = {}
             /\ remote = remote0

\* C19 happens: a backward sync with is_delete = true is over, its follow
\* task failed and its unfollow task ran to its end, and the store is not
\* empty
C19_Witness ==
    /\ run.kind = "backward" /\ run.is_delete /\ run.outcome = "raised"
    /\ Len(tasks) = 2
    /\ tasks[1].kind = "follow" /\ tasks[1].pc = "failed"
    /\ tasks[2].kind = "unfollow" /\ tasks[2].pc = "done"
    /\ remote # remote0
    /\ tracked # <<>>

====
